---------------------------- MODULE Spec2Model ----------------------------
(***************************************************************************)
(* Streaming-connection lifecycle of the trading dashboard.                *)
(*                                                                         *)
(* Two classes hold the same state machine:                                *)
(*   ContractWebSocketServiceImpl    (keyed channel,     /contracts)       *)
(*   MarketDataWebSocketServiceImpl  (broadcast channel, /market-data)     *)
(* One service instance is modelled at a time; `channel` says which one.   *)
(* The two singletons share no state, so every behaviour of the pair is an *)
(* interleaving of behaviours of the two instances taken alone.            *)
(*                                                                         *)
(* The transport is a socket.io-client Socket created with                 *)
(*   forceNew: true, autoConnect: true, reconnection: true.                *)
(* What the model takes from that library:                                 *)
(*   - a socket that is not connected and was not closed by either side    *)
(*     keeps (re)trying to open on its own ("opening");                    *)
(*   - 'connect' fires on every successful open, also on a re-open;        *)
(*   - 'disconnect' fires with a reason; after 'io server disconnect' and  *)
(*     'io client disconnect' the socket does not re-open on its own;      *)
(*   - Socket.disconnect() on a connected socket runs the 'disconnect'     *)
(*     listeners synchronously with reason 'io client disconnect';         *)
(*   - emit() on a socket that is not connected is buffered by the socket; *)
(*   - listeners are closures over the service object, so they run for     *)
(*     any socket the service ever created, current or not;                *)
(*   - the library of the named import { io, Socket } (version 3 and up)   *)
(*     emits 'reconnect', 'reconnect_attempt', 'reconnect_error' and       *)
(*     'reconnect_failed' on the Manager, not on the Socket, and a Socket  *)
(*     has no 'error' event of its own: the listeners the service puts on  *)
(*     the Socket for these names never run and are not modelled.          *)
(* The listeners never look at which socket fired them, so sockets the     *)
(* service no longer references are kept by state, as a multiset.          *)
(* Timers are JavaScript timers: overwriting the field that holds a handle *)
(* does not cancel the timer the old handle named.                         *)
(***************************************************************************)
EXTENDS Integers, Sequences, FiniteSets, TLC

\* ------------------------------------------------------------------ bounds
\* Live sockets the service created and no longer references.
MaxSuperseded == 1
\* Instrument tokens a consumer can subscribe to.
MaxTokens == 2
\* Stabilization timers whose handle was overwritten and that still pend.
MaxLeakedTimers == 1
\* Orders the consumer may watch.
MaxOrders == 2

\* --------------------------------------------------------- program constants
maxReconnectAttempts == 10
RECONNECT_DELAY == 2000
RECONNECT_DELAY_MAX == 10000
HEARTBEAT_INTERVAL == 30000
DATA_TIMEOUT == 60000
PRICE_CEILING == 100000

\* ------------------------------------------------------------ value domains
Channels == {"contracts", "market-data"}
NULL == 0
NoToken == NULL
NoData == NULL
Tokens == 1..MaxTokens
\* Consumer data callbacks and observer handlers, by identity.
Callbacks == {"cbF"}
\* The callbacks of two renders of the hook, for the keyed subscription that
\* is made again with a new callback.
RenderCallbacks == Callbacks \cup {"cbG"}
\* "noop" is the empty handler the consumers register on cleanup.
Observers == {"obs", "noop"}
\* The page registers handlers of its own on the instance the hook uses.
PageObservers == Observers \cup {"obsPage"}
\* "obsHook" are the handlers of the hook that drive its connected
\* indicator; the hook registers them when its effect runs and the empty
\* handlers when it is cleaned up.
HookObservers == {"obsHook", "noop"}
\* A socket is "opening" (trying to open, first time or again), "connected"
\* or "closed" (it will not open again).
LiveStates == {"opening", "connected"}
Which == {"current", "superseded"}
\* Close reasons reported by the transport for a close the client did not
\* ask for.  'transport close' stands for every reason after which the
\* socket re-opens by itself ('transport close', 'transport error',
\* 'ping timeout').
ServerReasons == {"io server disconnect", "transport close"}
\* Date.now() - lastDataReceived, in ms, as far as the watchdog can tell
\* values apart: within the timeout, beyond the timeout.
Elapsed == <<DATA_TIMEOUT, DATA_TIMEOUT + HEARTBEAT_INTERVAL>>

\* ------------------------------------------------------------ inbound frames
\* A JavaScript value as a frame's field can hold it: a number (finite, NaN,
\* Infinity, -Infinity; JSON text such as 1e999 parses to Infinity), a value
\* of another type, or no value (the property is missing).
Num(n) == [type |-> "number", special |-> "none", n |-> n]
NaN == [type |-> "number", special |-> "NaN", n |-> 0]
PosInfinity == [type |-> "number", special |-> "Infinity", n |-> 0]
Str == [type |-> "string", special |-> "none", n |-> 0]
Undefined == [type |-> "undefined", special |-> "none", n |-> 0]

\* x > k, x < k, x <= k for a number x and an integer k, as JavaScript
\* compares: every comparison with NaN is false.
Gt(x, k) ==
    \/ x.special = "Infinity"
    \/ x.special = "none" /\ x.n > k
Lt(x, k) ==
    \/ x.special = "-Infinity"
    \/ x.special = "none" /\ x.n < k
Le(x, k) ==
    \/ x.special = "-Infinity"
    \/ x.special = "none" /\ x.n <= k

Prices == { Num(0 - 5), Num(0), Num(250), Num(PRICE_CEILING),
            Num(PRICE_CEILING + 1), NaN, PosInfinity, Str, Undefined }
Changes == { Num(2), PosInfinity, Str }
PreviousPrices == { Undefined, Num(240) }

\* What a key of the payload holds: an object with the three fields, a value
\* that is no object, or nothing (the payload has no such key).
Obj(p, c, pp) ==
    [kind |-> "object", price |-> p, changePercent |-> c, previousPrice |-> pp]
Scalar == [kind |-> "scalar", price |-> Undefined, changePercent |-> Undefined,
           previousPrice |-> Undefined]
Absent == [kind |-> "absent", price |-> Undefined, changePercent |-> Undefined,
           previousPrice |-> Undefined]
PayloadEntries == { Obj(p, c, pp) : p \in Prices, c \in Changes,
                                    pp \in PreviousPrices }
                      \cup {Scalar, Absent}

Indexes == {"nifty50", "niftyBank"}
FrameKeys(ch) == IF ch = "contracts" THEN Tokens ELSE Indexes

\* The argument of the data listener: shape "none" is a frame without a
\* (truthy) data property, "scalar" one whose data is not an object.
NoFrame == [shape |-> "no frame", entries |-> <<>>]
Frames(ch) ==
    { [shape |-> "object", entries |-> e] : e \in [FrameKeys(ch) -> PayloadEntries] }
        \cup { [shape |-> sh, entries |-> [k \in FrameKeys(ch) |-> Absent]] :
                 sh \in {"none", "scalar"} }

\* A sample of the frames: every key holds an in-range entry, an entry with
\* a negative price, or nothing.
SampleEntries == { Obj(Num(250), Num(2), Undefined),
                   Obj(Num(0 - 5), Num(2), Undefined),
                   Absent }
SampleFrames(ch) ==
    { [shape |-> "object", entries |-> e] : e \in [FrameKeys(ch) -> SampleEntries] }
        \cup { [shape |-> sh, entries |-> [k \in FrameKeys(ch) |-> Absent]] :
                 sh \in {"none", "scalar"} }

VARIABLES
    channel,                   \* which service class this instance is
    socket,                    \* contractsSocket / marketDataSocket:
                               \*   "null", or the state of the socket it names
    superseded,                \* live state -> number of unreferenced sockets
    isConnecting,
    reconnectAttempts,
    reconnectTimeout,          \* NULL, or the delay (ms) of the pending timer
    leakedReconnects,          \* pending backoff timers no field names
    isManualDisconnect,
    lastError,                 \* "null" or the message
    lastDataReceived,          \* NoData = null, else index into Elapsed
    heartbeatInterval,         \* TRUE iff the interval timer runs
    connectionStabilized,
    subscriptionTimeout,       \* TRUE iff the field names a pending timer
    leakedTimeouts,            \* pending stabilization timers no field names
    specificContractCallbacks, \* Map in insertion order: Seq of <<token, cb>>
    marketDataCallback,        \* "null" or a callback
    connectCallback,
    disconnectCallback,
    errorCallback,
    hookIsConnected,           \* the hook's state isConnected (the indicator)
    watchedOrders,             \* order watch: Map in insertion order,
                               \*   Seq of <<orderId, config>>
    orderCheckInterval,        \* order watch: the order check runs
    orderExecutedCallback,     \* order watch: the consumer's callback
    emitted,                   \* requests emitted by the last step
    invoked,                   \* consumer callbacks invoked by the last step
    delivered,                 \* data callbacks invoked by the last step
    frame,                     \* the data frame the server sends, if any
    event,                     \* name of the last step
    expected,                  \* history: what the registry has to hold
                               \*   since the first unrequested close
    fires,                     \* history: backoff timers fired since a
                               \*   transport last opened
    stopped,                   \* history: disconnect() was called and
                               \*   connect() was not called since
    twice,                     \* history: the last two steps were calls
                               \*   of disconnect()
    scen                       \* history: progress of a followed scenario

vars == << channel, socket, superseded, isConnecting, reconnectAttempts,
           reconnectTimeout, leakedReconnects, isManualDisconnect, lastError,
           lastDataReceived, heartbeatInterval, connectionStabilized,
           subscriptionTimeout, leakedTimeouts, specificContractCallbacks,
           marketDataCallback, connectCallback, disconnectCallback,
           errorCallback, hookIsConnected, watchedOrders, orderCheckInterval,
           orderExecutedCallback, emitted, invoked, delivered, frame, event,
           expected, fires, stopped, twice, scen >>

\* The service object as one record, so that a handler that calls other
\* methods is the composition of their effects.
State ==
    [ channel |-> channel, socket |-> socket, superseded |-> superseded,
      isConnecting |-> isConnecting, reconnectAttempts |-> reconnectAttempts,
      reconnectTimeout |-> reconnectTimeout,
      leakedReconnects |-> leakedReconnects,
      isManualDisconnect |-> isManualDisconnect, lastError |-> lastError,
      lastDataReceived |-> lastDataReceived,
      heartbeatInterval |-> heartbeatInterval,
      connectionStabilized |-> connectionStabilized,
      subscriptionTimeout |-> subscriptionTimeout,
      leakedTimeouts |-> leakedTimeouts,
      specificContractCallbacks |-> specificContractCallbacks,
      marketDataCallback |-> marketDataCallback,
      connectCallback |-> connectCallback,
      disconnectCallback |-> disconnectCallback,
      errorCallback |-> errorCallback,
      hookIsConnected |-> hookIsConnected,
      watchedOrders |-> watchedOrders,
      orderCheckInterval |-> orderCheckInterval,
      orderExecutedCallback |-> orderExecutedCallback,
      emitted |-> <<>>, invoked |-> <<>>, delivered |-> <<>>,
      frame |-> frame, event |-> event ]

Apply(r) ==
    /\ channel' = r.channel
    /\ socket' = r.socket
    /\ superseded' = r.superseded
    /\ isConnecting' = r.isConnecting
    /\ reconnectAttempts' = r.reconnectAttempts
    /\ reconnectTimeout' = r.reconnectTimeout
    /\ leakedReconnects' = r.leakedReconnects
    /\ isManualDisconnect' = r.isManualDisconnect
    /\ lastError' = r.lastError
    /\ lastDataReceived' = r.lastDataReceived
    /\ heartbeatInterval' = r.heartbeatInterval
    /\ connectionStabilized' = r.connectionStabilized
    /\ subscriptionTimeout' = r.subscriptionTimeout
    /\ leakedTimeouts' = r.leakedTimeouts
    /\ specificContractCallbacks' = r.specificContractCallbacks
    /\ marketDataCallback' = r.marketDataCallback
    /\ connectCallback' = r.connectCallback
    /\ disconnectCallback' = r.disconnectCallback
    /\ errorCallback' = r.errorCallback
    /\ hookIsConnected' = r.hookIsConnected
    /\ watchedOrders' = r.watchedOrders
    /\ orderCheckInterval' = r.orderCheckInterval
    /\ orderExecutedCallback' = r.orderExecutedCallback
    /\ emitted' = r.emitted
    /\ invoked' = r.invoked
    /\ delivered' = r.delivered
    /\ frame' = r.frame
    /\ event' = r.event

Named(r, name) == [r EXCEPT !.event = name]

Min(a, b) == IF a < b THEN a ELSE b

RECURSIVE Pow2(_)
Pow2(n) == IF n = 0 THEN 1 ELSE 2 * Pow2(n - 1)

\* ------------------------------------------------------------ the registry
\* Map.set: an existing key keeps its position and takes the new value,
\* a new key goes last.
\* Variant of Map.set that adds an entry whether or not the key is present.
MapSet_Appends(m, k, v) == Append(m, <<k, v>>)

RECURSIVE MapSet(_, _, _)
MapSet(m, k, v) ==
    IF m = <<>> THEN << <<k, v>> >>
    ELSE IF Head(m)[1] = k THEN << <<k, v>> >> \o Tail(m)
    ELSE << Head(m) >> \o MapSet(Tail(m), k, v)

RECURSIVE MapDelete(_, _)
MapDelete(m, k) ==
    IF m = <<>> THEN <<>>
    ELSE IF Head(m)[1] = k THEN Tail(m)
    ELSE << Head(m) >> \o MapDelete(Tail(m), k)

MapKeys(m) == { m[i][1] : i \in DOMAIN m }

\* ------------------------------------------------------------ the transport
isConnected(r) == r.socket = "connected"

\* this.<socket>?.emit(name, payload): nothing without a socket; on the wire
\* if the socket is connected, else kept in the socket's send buffer.
emit(r, name, tok) ==
    IF r.socket = "null" THEN r
    ELSE [r EXCEPT !.emitted = Append(@,
            [name |-> name, token |-> tok, wire |-> r.socket = "connected"])]

\* Invoking a handler runs it: the hook's handleConnect sets its indicator,
\* its handleDisconnect and handleError clear it.
call(r, what, cb) ==
    [r EXCEPT !.invoked = Append(@, [what |-> what, cb |-> cb]),
              !.hookIsConnected = IF cb = "obsHook"
                                  THEN what = "onConnect" ELSE @]

NumSuperseded(r) == r.superseded["opening"] + r.superseded["connected"]

\* ------------------------------------------------------- private methods
stopHeartbeat(r) == [r EXCEPT !.heartbeatInterval = FALSE]

startHeartbeat(r) == [stopHeartbeat(r) EXCEPT !.heartbeatInterval = TRUE]

handleConnectionError(r, msg) ==
    LET r1 == [r EXCEPT !.isConnecting = FALSE, !.lastError = msg]
    IN  IF r1.errorCallback # "null"
        THEN call(r1, "onError", r1.errorCallback)
        ELSE r1

\* this.reconnectTimeout = setTimeout(..., delay): a timer the field named
\* before goes on pending.
setReconnectTimeout(r, delay) ==
    [r EXCEPT !.leakedReconnects = IF r.reconnectTimeout # NULL
                                   THEN @ + 1 ELSE @,
              !.reconnectTimeout = delay]

\* Variant of scheduleReconnect without the ceiling on reconnectAttempts.
scheduleReconnect_NoCeiling(r) ==
    IF r.reconnectTimeout # NULL \/ r.isManualDisconnect THEN r
    ELSE setReconnectTimeout(r,
             Min(RECONNECT_DELAY * Pow2(r.reconnectAttempts),
                 RECONNECT_DELAY_MAX))

\* Variant of scheduleReconnect that does not look for a pending timer.
scheduleReconnect_NoPendingCheck(r) ==
    IF r.isManualDisconnect THEN r
    ELSE IF r.reconnectAttempts >= maxReconnectAttempts
    THEN handleConnectionError(r, "Max reconnection attempts reached")
    ELSE setReconnectTimeout(r,
             Min(RECONNECT_DELAY * Pow2(r.reconnectAttempts),
                 RECONNECT_DELAY_MAX))

scheduleReconnect(r) ==
    IF r.reconnectTimeout # NULL \/ r.isManualDisconnect THEN r
    ELSE IF r.reconnectAttempts >= maxReconnectAttempts
    THEN handleConnectionError(r, "Max reconnection attempts reached")
    ELSE setReconnectTimeout(r,
             Min(RECONNECT_DELAY * Pow2(r.reconnectAttempts),
                 RECONNECT_DELAY_MAX))

\* if (this.subscriptionTimeout) { clearTimeout(...); ... = null }
clearSubscriptionTimeout(r) == [r EXCEPT !.subscriptionTimeout = FALSE]

\* Variant of the 'disconnect' listener that drops the registry, as
\* disconnect() does.
onDisconnectEvent_DropsRegistry(r, reason) ==
    LET r1 == clearSubscriptionTimeout(stopHeartbeat(
                 [r EXCEPT !.isConnecting = FALSE,
                           !.connectionStabilized = FALSE,
                           !.specificContractCallbacks = <<>>]))
        r2 == IF r1.disconnectCallback # "null"
              THEN call(r1, "onDisconnect", r1.disconnectCallback)
              ELSE r1
    IN  IF ~r2.isManualDisconnect /\ reason # "io client disconnect"
        THEN scheduleReconnect(r2)
        ELSE r2

\* Variant of the 'disconnect' listener that invokes the observer only if
\* the connection had stabilized.
onDisconnectEvent_SilentIfUnstable(r, reason) ==
    LET r1 == clearSubscriptionTimeout(stopHeartbeat(
                 [r EXCEPT !.isConnecting = FALSE,
                           !.connectionStabilized = FALSE]))
        r2 == IF r1.disconnectCallback # "null" /\ r.connectionStabilized
              THEN call(r1, "onDisconnect", r1.disconnectCallback)
              ELSE r1
    IN  IF ~r2.isManualDisconnect /\ reason # "io client disconnect"
        THEN scheduleReconnect(r2)
        ELSE r2

\* The 'disconnect' listener.
onDisconnectEvent(r, reason) ==
    LET r1 == clearSubscriptionTimeout(stopHeartbeat(
                 [r EXCEPT !.isConnecting = FALSE,
                           !.connectionStabilized = FALSE]))
        r2 == IF r1.disconnectCallback # "null"
              THEN call(r1, "onDisconnect", r1.disconnectCallback)
              ELSE r1
    IN  IF ~r2.isManualDisconnect /\ reason # "io client disconnect"
        THEN scheduleReconnect(r2)
        ELSE r2

\* Variant of Socket.disconnect() that runs the 'disconnect' listener on a
\* socket that is not connected as well.
socketDisconnect_AlwaysNotifies(r) ==
    onDisconnectEvent([r EXCEPT !.socket = "closed"], "io client disconnect")

\* Socket.disconnect() called by the service on the socket its field names:
\* a connected socket runs the 'disconnect' listener before the call returns.
socketDisconnect(r) ==
    IF r.socket = "connected"
    THEN onDisconnectEvent([r EXCEPT !.socket = "closed"],
                           "io client disconnect")
    ELSE [r EXCEPT !.socket = "closed"]

\* connect().  The socket the field named before stays as it is; if it is
\* still live it is from now on a socket nothing references.
CanConnect(r) == ~r.isConnecting /\ ~isConnected(r)

\* Variant of connect() that returns early only while isConnecting is set.
doConnect_NoConnectedCheck(r) ==
    IF r.isConnecting THEN r
    ELSE [r EXCEPT !.isConnecting = TRUE,
                   !.lastError = "null",
                   !.connectionStabilized = FALSE,
                   !.superseded = IF r.socket \in LiveStates
                                  THEN [@ EXCEPT ![r.socket] = @ + 1]
                                  ELSE @,
                   !.socket = "opening"]

doConnect(r) ==
    IF ~CanConnect(r) THEN r
    ELSE [r EXCEPT !.isConnecting = TRUE,
                   !.lastError = "null",
                   !.connectionStabilized = FALSE,
                   !.superseded = IF r.socket \in LiveStates
                                  THEN [@ EXCEPT ![r.socket] = @ + 1]
                                  ELSE @,
                   !.socket = "opening"]

\* A call of connect() that leaves a live socket behind needs room for it.
ConnectFits(r) ==
    (CanConnect(r) /\ r.socket \in LiveStates)
        => NumSuperseded(r) < MaxSuperseded


\* ---------------------------------------------------------------- history
\* `expected` starts to follow the registry at the first close the consumer
\* did not ask for: it takes the entries the registry held just before that
\* close and is then changed by the consumer's subscribe and unsubscribe
\* calls only.  disconnect() ends the episode.
NoExpectation == [valid |-> FALSE, entries |-> {}]
Entries(m) == { m[i] : i \in DOMAIN m }

ExpectedAfter(name, token, cb) ==
    IF name = "disconnect" THEN NoExpectation
    ELSE IF name = "disconnect_event" /\ ~expected.valid
    THEN [valid |-> TRUE, entries |-> Entries(specificContractCallbacks)]
    ELSE IF name = "subscribeToSpecificContract" /\ expected.valid
    THEN [expected EXCEPT !.entries =
             { e \in @ : e[1] # token } \cup { <<token, cb>> }]
    ELSE IF name = "unsubscribeFromSpecificContract" /\ expected.valid
    THEN [expected EXCEPT !.entries = { e \in @ : e[1] # token }]
    ELSE expected

\* `scen` follows one scenario through a behaviour; which one is fixed by
\* the initial state (scen.mode) and "off" follows none.
\*   "deferred": saved = the keys subscribed while the transport was not
\*       connected and neither unsubscribed nor dropped by disconnect()
\*       since; phase = "check" in the state a stabilization leads to.
\*   "replace": disconnect() is called while a reconnection is scheduled
\*       and the registry holds saved # {}, connect() is the next call,
\*       created counts the sockets created from then on; phase = "check"
\*       in the state the first stabilization after that leads to.
\*   "observers": phase = the observer invoked last, "onConnect" or
\*       "onDisconnect", "idle" before the first invocation; saved = the
\*       handlers that were registered and replaced by a later registration.
\*   "upsert": saved = the (key, callback) pairs that a later subscribe of
\*       the key replaced with another callback and that were not
\*       registered again since.
\*   "orders": saved = the orders for which 'order_executed' arrived and
\*       watchOrder was not called since; phase = after an 'order_executed',
\*       whether its order was watched when the event arrived.
\*   "indicator": phase = "throughout" from the first registration of the
\*       hook's handlers on, made before the connection is stable, as long
\*       as no other handlers are registered; "replaced" from then on.
Idle(mode) == [mode |-> mode, phase |-> "idle", saved |-> {}, created |-> 0]
ApiCalls == {"connect", "disconnect", "subscribeToSpecificContract",
             "unsubscribeFromSpecificContract"}

DeferredAfter(name, token) ==
    LET base == IF scen.phase = "check" THEN Idle(scen.mode) ELSE scen
    IN  IF name = "subscribeToSpecificContract"
        THEN [base EXCEPT !.saved = IF socket = "connected"
                                    THEN @ \ {token} ELSE @ \cup {token}]
        ELSE IF name = "unsubscribeFromSpecificContract"
        THEN [base EXCEPT !.saved = @ \ {token}]
        ELSE IF name = "disconnect" THEN Idle(scen.mode)
        ELSE IF name = "stabilized" THEN [base EXCEPT !.phase = "check"]
        ELSE base

ReplaceAfter(name) ==
    LET creates == name \in {"connect", "reconnect_timer"}
                   /\ ~isConnecting /\ socket # "connected"
    IN  IF name = "disconnect"
        THEN IF reconnectTimeout # NULL /\ specificContractCallbacks # <<>>
             THEN [scen EXCEPT !.phase = "disconnected",
                               !.saved = { e[1] : e \in
                                             Entries(specificContractCallbacks) },
                               !.created = 0]
             ELSE Idle(scen.mode)
        ELSE IF scen.phase = "disconnected"
        THEN IF name = "connect"
             THEN [scen EXCEPT !.phase = "reconnecting", !.created = 1]
             ELSE Idle(scen.mode)
        ELSE IF scen.phase = "reconnecting"
        THEN IF name \in ApiCalls THEN Idle(scen.mode)
             ELSE IF name = "stabilized" THEN [scen EXCEPT !.phase = "check"]
             ELSE IF creates THEN [scen EXCEPT !.created = @ + 1]
             ELSE scen
        ELSE Idle(scen.mode)

\* `fires` counts the consecutive failed reconnections: the backoff timers
\* that fired since a transport last opened; disconnect() starts afresh.
FiresAfter(name) ==
    IF name = "reconnect_timer" THEN fires + 1
    ELSE IF name \in {"connect_event", "disconnect"} THEN 0
    ELSE fires

\* The step under way invokes the observer `what`.
Invokes(what) == \E i \in DOMAIN invoked' : invoked'[i].what = what

ObserversAfter(name, h) ==
    IF name = "setObservers"
    THEN [scen EXCEPT !.saved = (@ \cup {connectCallback, disconnectCallback,
                                         errorCallback}) \ {h, "null"}]
    ELSE IF Invokes("onConnect") THEN [scen EXCEPT !.phase = "onConnect"]
    ELSE IF Invokes("onDisconnect") THEN [scen EXCEPT !.phase = "onDisconnect"]
    ELSE scen

\* The callback registered under a key, "null" when there is none.
RECURSIVE MapGet(_, _)
MapGet(m, k) ==
    IF m = <<>> THEN "null"
    ELSE IF Head(m)[1] = k THEN Head(m)[2]
    ELSE MapGet(Tail(m), k)

UpsertAfter(name, token, cb) ==
    IF name # "subscribeToSpecificContract" THEN scen
    ELSE LET old == MapGet(specificContractCallbacks, token)
         IN  [scen EXCEPT !.saved =
                 (@ \cup (IF old \in {"null", cb} THEN {}
                          ELSE {<<token, old>>})) \ {<<token, cb>>}]

OrdersAfter(name, orderId) ==
    IF name = "order_executed"
    THEN [scen EXCEPT !.saved = @ \cup {orderId},
                      !.phase = IF orderId \in MapKeys(watchedOrders)
                                THEN "watched" ELSE "unwatched"]
    ELSE IF name = "watchOrder"
    THEN [scen EXCEPT !.saved = @ \ {orderId}, !.phase = "idle"]
    ELSE [scen EXCEPT !.phase = "idle"]

IndicatorAfter(name, h) ==
    IF name # "setObservers" THEN scen
    ELSE IF h # "obsHook" THEN [scen EXCEPT !.phase = "replaced"]
    ELSE IF scen.phase = "idle" /\ ~(socket = "connected" /\ connectionStabilized)
    THEN [scen EXCEPT !.phase = "throughout"]
    ELSE IF scen.phase = "throughout" THEN scen
    ELSE [scen EXCEPT !.phase = "replaced"]

StoppedAfter(name) ==
    IF name = "disconnect" THEN TRUE
    ELSE IF name = "connect" THEN FALSE
    ELSE stopped

History(name, token, cb) ==
    /\ expected' = ExpectedAfter(name, token, cb)
    /\ fires' = FiresAfter(name)
    /\ stopped' = StoppedAfter(name)
    /\ twice' = (name = "disconnect" /\ event = "disconnect")
    /\ scen' = IF scen.mode = "deferred" THEN DeferredAfter(name, token)
               ELSE IF scen.mode = "replace" THEN ReplaceAfter(name)
               ELSE IF scen.mode = "observers" THEN ObserversAfter(name, cb)
               ELSE IF scen.mode = "indicator" THEN IndicatorAfter(name, cb)
               ELSE IF scen.mode = "upsert" THEN UpsertAfter(name, token, cb)
               ELSE IF scen.mode = "orders" THEN OrdersAfter(name, token)
               ELSE scen

\* ------------------------------------------------------------ public API
\* Variant of disconnect() that does not mark the disconnect as manual.
doDisconnect_NotManual(r) ==
    LET r1 == clearSubscriptionTimeout(stopHeartbeat(r))
        r2 == [r1 EXCEPT !.reconnectTimeout = NULL]
        r3 == IF r2.socket # "null"
              THEN [socketDisconnect(r2) EXCEPT !.socket = "null"]
              ELSE r2
        r4 == IF r3.channel = "contracts"
              THEN [r3 EXCEPT !.specificContractCallbacks = <<>>]
              ELSE r3
    IN  [r4 EXCEPT !.isConnecting = FALSE,
                   !.reconnectAttempts = 0,
                   !.connectionStabilized = FALSE,
                   !.lastDataReceived = NoData]

\* disconnect().  The keyed class also clears its registry (lines 336-338);
\* MarketDataWebSocketServiceImpl.disconnect is the same code without that.
doDisconnect(r) ==
    LET r1 == clearSubscriptionTimeout(stopHeartbeat(
                 [r EXCEPT !.isManualDisconnect = TRUE]))
        r2 == [r1 EXCEPT !.reconnectTimeout = NULL]
        r3 == IF r2.socket # "null"
              THEN [socketDisconnect(r2) EXCEPT !.socket = "null"]
              ELSE r2
        r4 == IF r3.channel = "contracts"
              THEN [r3 EXCEPT !.specificContractCallbacks = <<>>]
              ELSE r3
    IN  [r4 EXCEPT !.isConnecting = FALSE,
                   !.reconnectAttempts = 0,
                   !.connectionStabilized = FALSE,
                   !.lastDataReceived = NoData]

connect ==
    /\ ConnectFits(State)
    /\ Apply(Named(doConnect(State), "connect"))
    /\ History("connect", NoToken, "null")

disconnect ==
    /\ Apply(Named(doDisconnect(State), "disconnect"))
    /\ History("disconnect", NoToken, "null")

doSubscribeToSpecificContract(r, token, cb) ==
    LET r1 == [r EXCEPT !.specificContractCallbacks = MapSet(@, token, cb)]
    IN  IF isConnected(r1)
        THEN emit(r1, "subscribe_specific_contract", token)
        ELSE r1

subscribeToSpecificContract(token, cb) ==
    /\ channel = "contracts"
    /\ Apply(Named(doSubscribeToSpecificContract(State, token, cb),
                   "subscribeToSpecificContract"))
    /\ History("subscribeToSpecificContract", token, cb)

doUnsubscribeFromSpecificContract(r, token) ==
    LET r1 == [r EXCEPT !.specificContractCallbacks = MapDelete(@, token)]
    IN  IF isConnected(r1)
        THEN emit(r1, "unsubscribe_specific_contract", token)
        ELSE r1

unsubscribeFromSpecificContract(token) ==
    /\ channel = "contracts"
    /\ Apply(Named(doUnsubscribeFromSpecificContract(State, token),
                   "unsubscribeFromSpecificContract"))
    /\ History("unsubscribeFromSpecificContract", token, "null")

subscribeToMarketData(cb) ==
    /\ channel = "market-data"
    /\ Apply(Named([State EXCEPT !.marketDataCallback = cb],
                   "subscribeToMarketData"))
    /\ History("subscribeToMarketData", NoToken, "null")

unsubscribeFromMarketData ==
    /\ channel = "market-data"
    /\ Apply(Named([State EXCEPT !.marketDataCallback = "null"],
                   "unsubscribeFromMarketData"))
    /\ History("unsubscribeFromMarketData", NoToken, "null")

\* Variant of onConnect that keeps a handler once one is registered.
onConnect_KeepsFirst(r, h) ==
    IF r.connectCallback # "null" THEN r
    ELSE [r EXCEPT !.connectCallback = h]

onConnect(r, h) == [r EXCEPT !.connectCallback = h]

onDisconnect(r, h) == [r EXCEPT !.disconnectCallback = h]

onError(r, h) == [r EXCEPT !.errorCallback = h]

\* The consumers register the three observers together: their handlers
\* when the effect runs, empty handlers when it is cleaned up.
setObservers(h) ==
    /\ Apply(Named(onError(onDisconnect(onConnect(State, h), h), h),
                   "setObservers"))
    /\ History("setObservers", NoToken, h)

\* ------------------------------------------------- validation and dispatch
Invalid == [ok |-> FALSE, value |-> <<>>]
Valid(v) == [ok |-> TRUE, value |-> v]

\* Variant of validateContractData that rejects the whole frame for one
\* rejected entry, as validateMarketData does.
validateContractData_AllOrNothing(f) ==
    IF f.shape # "object" THEN Invalid
    ELSE LET accepts(e) ==
                 /\ e.kind = "object"
                 /\ e.price.type = "number"
                 /\ e.changePercent.type = "number"
                 /\ Gt(e.price, 0) /\ Lt(e.price, PRICE_CEILING)
             present == { k \in DOMAIN f.entries :
                            f.entries[k].kind = "object" }
             validatedData ==
                 [ k \in present |->
                     LET e == f.entries[k]
                     IN  [ price |-> e.price,
                           changePercent |-> e.changePercent,
                           previousPrice |->
                               IF e.previousPrice.type = "number"
                               THEN e.previousPrice ELSE e.price ] ]
         IN  IF present # {} /\ \A k \in present : accepts(f.entries[k])
             THEN Valid(validatedData) ELSE Invalid

\* validateContractData, applied to the data property of a frame.
validateContractData(f) ==
    IF f.shape # "object" THEN Invalid
    ELSE LET accepts(e) ==
                 /\ e.kind = "object"
                 /\ e.price.type = "number"
                 /\ e.changePercent.type = "number"
                 /\ Gt(e.price, 0) /\ Lt(e.price, PRICE_CEILING)
             accepted == { k \in DOMAIN f.entries : accepts(f.entries[k]) }
             validatedData ==
                 [ k \in accepted |->
                     LET e == f.entries[k]
                     IN  [ price |-> e.price,
                           changePercent |-> e.changePercent,
                           previousPrice |->
                               IF e.previousPrice.type = "number"
                               THEN e.previousPrice ELSE e.price ] ]
         IN  IF accepted # {} THEN Valid(validatedData) ELSE Invalid

\* Variant of validateMarketData that checks the nifty50 entry only.
validateMarketData_FirstOnly(f) ==
    IF f.shape # "object" THEN Invalid
    ELSE LET nifty50 == f.entries["nifty50"]
             missing(e) ==
                 \/ e.kind # "object"
                 \/ e.price = Undefined
                 \/ e.changePercent = Undefined
             illTyped(e) ==
                 \/ e.price.type # "number"
                 \/ e.changePercent.type # "number"
             outOfRange(e) == Le(e.price, 0) \/ Gt(e.price, PRICE_CEILING)
         IN  IF missing(nifty50) \/ illTyped(nifty50) THEN Invalid
             ELSE IF outOfRange(nifty50) THEN Invalid
             ELSE Valid([ k \in Indexes |->
                            [ price |-> f.entries[k].price,
                              changePercent |-> f.entries[k].changePercent ] ])

\* validateMarketData, applied to the data property of a frame.
validateMarketData(f) ==
    IF f.shape # "object" THEN Invalid
    ELSE LET nifty50 == f.entries["nifty50"]
             niftyBank == f.entries["niftyBank"]
             missing(e) ==
                 \/ e.kind # "object"
                 \/ e.price = Undefined
                 \/ e.changePercent = Undefined
             illTyped(e) ==
                 \/ e.price.type # "number"
                 \/ e.changePercent.type # "number"
             outOfRange(e) == Le(e.price, 0) \/ Gt(e.price, PRICE_CEILING)
         IN  IF missing(nifty50) \/ illTyped(nifty50) THEN Invalid
             ELSE IF missing(niftyBank) \/ illTyped(niftyBank) THEN Invalid
             ELSE IF outOfRange(nifty50) \/ outOfRange(niftyBank) THEN Invalid
             ELSE Valid([ k \in Indexes |->
                            [ price |-> f.entries[k].price,
                              changePercent |-> f.entries[k].changePercent ] ])

\* Variant of the callback invocation that runs the callback a second time
\* with the same argument.
deliver_Twice(r, cb, key, arg) ==
    [r EXCEPT !.delivered = Append(Append(@, [cb |-> cb, key |-> key,
                                                arg |-> arg]),
                                   [cb |-> cb, key |-> key, arg |-> arg])]

deliver(r, cb, key, arg) ==
    [r EXCEPT !.delivered = Append(@, [cb |-> cb, key |-> key, arg |-> arg])]

\* Variant of the dispatch loop that hands every subscriber the whole
\* validated frame.
RECURSIVE dispatch_WholeFrame(_, _, _)
dispatch_WholeFrame(r, m, validatedData) ==
    IF m = <<>> THEN r
    ELSE dispatch_WholeFrame(
             deliver(r, Head(m)[2], Head(m)[1], validatedData),
             Tail(m), validatedData)

\* specificContractCallbacks.forEach((callback, token) => ...) of the
\* 'contract_updates' listener.
RECURSIVE dispatch(_, _, _)
dispatch(r, m, validatedData) ==
    IF m = <<>> THEN r
    ELSE LET token == Head(m)[1]
             callback == Head(m)[2]
             r1 == IF token \in DOMAIN validatedData
                   THEN deliver(r, callback, token,
                                [k \in {token} |-> validatedData[token]])
                   ELSE r
         IN  dispatch(r1, Tail(m), validatedData)

\* The 'contract_updates' listener.
onContractUpdates(r, f) ==
    LET r1 == [r EXCEPT !.lastDataReceived = 1]
        validated == validateContractData(f)
    IN  IF f.shape # "none" /\ validated.ok
        THEN dispatch(r1, r1.specificContractCallbacks, validated.value)
        ELSE r1

\* The 'market_data_update' listener.
onMarketDataUpdate(r, f) ==
    LET r1 == [r EXCEPT !.lastDataReceived = 1]
        validated == validateMarketData(f)
    IN  IF r1.marketDataCallback # "null" /\ f.shape # "none" /\ validated.ok
        THEN deliver(r1, r1.marketDataCallback, NoToken, validated.value)
        ELSE r1

\* ------------------------------------------------------ transport events
\* A socket in state st exists: the one the field names, or one that
\* nothing references any more.
SocketAt(which, st) ==
    IF which = "current" THEN socket = st ELSE superseded[st] > 0

moveSocket(r, which, from, to) ==
    IF which = "current" THEN [r EXCEPT !.socket = to]
    ELSE LET less == [r.superseded EXCEPT ![from] = @ - 1]
         IN  [r EXCEPT !.superseded =
                 IF to \in LiveStates THEN [less EXCEPT ![to] = @ + 1]
                 ELSE less]

\* The 'connect' listener.
onConnectEvent(r) ==
    [r EXCEPT !.isConnecting = FALSE,
              !.reconnectAttempts = 0,
              !.lastError = "null",
              !.lastDataReceived = 1,
              !.leakedTimeouts = IF r.subscriptionTimeout THEN @ + 1 ELSE @,
              !.subscriptionTimeout = TRUE]

SocketConnect(which) ==
    /\ SocketAt(which, "opening")
    /\ subscriptionTimeout => leakedTimeouts < MaxLeakedTimers
    /\ Apply(Named(onConnectEvent(
                     moveSocket(State, which, "opening", "connected")),
                   "connect_event"))
    /\ History("connect_event", NoToken, "null")

\* A close the client did not ask for.  The socket re-opens by itself
\* unless the server closed it.
SocketDisconnect(which, reason) ==
    /\ SocketAt(which, "connected")
    /\ LET after == IF reason = "io server disconnect"
                    THEN "closed" ELSE "opening"
       IN  Apply(Named(onDisconnectEvent(
                         moveSocket(State, which, "connected", after), reason),
                       "disconnect_event"))
    /\ History("disconnect_event", NoToken, "null")

\* The 'connect_error' listener: an attempt to open failed.  The socket
\* tries again until its own attempt budget is used up (giveUp).
SocketConnectError(which, giveUp) ==
    /\ SocketAt(which, "opening")
    /\ LET after == IF giveUp THEN "closed" ELSE "opening"
       IN  Apply(Named(handleConnectionError(
                         moveSocket(State, which, "opening", after),
                         "Connection failed"),
                       "connect_error"))
    /\ History("connect_error", NoToken, "null")

\* The 'pong' listener.
SocketPong(which) ==
    /\ SocketAt(which, "connected")
    /\ Apply(Named([State EXCEPT !.lastDataReceived = 1], "pong"))
    /\ History("pong", NoToken, "null")

\* The server's data frame arrives on a connected socket.
SocketData(which) ==
    /\ SocketAt(which, "connected")
    /\ frame # NoFrame
    /\ Apply(Named(IF channel = "contracts"
                   THEN onContractUpdates(State, frame)
                   ELSE onMarketDataUpdate(State, frame),
                   "data"))
    /\ History("data", NoToken, "null")

\* The server puts its next frame, another one of the sample, on the wire.
NextFrame ==
    /\ frame # NoFrame
    /\ \E f \in SampleFrames(channel) \ {frame} :
           Apply(Named([State EXCEPT !.frame = f], "frame"))
    /\ History("frame", NoToken, "null")

\* ------------------------------------------------------------------ timers
\* The Replayer: the re-subscription part of the stabilization callback.
RECURSIVE replayRegistry(_, _)
replayRegistry(r, m) ==
    IF m = <<>> THEN r
    ELSE replayRegistry(emit(r, "subscribe_specific_contract", Head(m)[1]),
                        Tail(m))

replay(r) ==
    IF r.channel = "contracts"
    THEN replayRegistry(r, r.specificContractCallbacks)
    ELSE emit(r, "subscribe_market_data", NoToken)

\* The callback of the stabilization timer.
onStabilized(r) ==
    LET r1 == startHeartbeat(replay([r EXCEPT !.connectionStabilized = TRUE]))
    IN  IF r1.connectCallback # "null"
        THEN call(r1, "onConnect", r1.connectCallback)
        ELSE r1

\* The timer whose handle the field holds fires.
StabilizationFires ==
    /\ subscriptionTimeout
    /\ Apply(Named(onStabilized([State EXCEPT !.subscriptionTimeout = FALSE]),
                   "stabilized"))
    /\ History("stabilized", NoToken, "null")

\* A timer whose handle was overwritten fires.
LeakedStabilizationFires ==
    /\ leakedTimeouts > 0
    /\ Apply(Named(onStabilized([State EXCEPT !.leakedTimeouts = @ - 1]),
                   "stabilized"))
    /\ History("stabilized", NoToken, "null")

\* Variant of the backoff timer's callback that does not count the attempt.
ReconnectTimerFires_NoIncrement ==
    /\ reconnectTimeout # NULL
    /\ LET r1 == [State EXCEPT !.reconnectTimeout = NULL]
       IN  /\ ConnectFits(r1)
           /\ Apply(Named(doConnect(r1), "reconnect_timer"))
    /\ History("reconnect_timer", NoToken, "null")

\* The callback of the backoff timer.
ReconnectTimerFires ==
    /\ reconnectTimeout # NULL
    /\ LET r1 == [State EXCEPT !.reconnectTimeout = NULL,
                               !.reconnectAttempts = @ + 1]
       IN  /\ ConnectFits(r1)
           /\ Apply(Named(doConnect(r1), "reconnect_timer"))
    /\ History("reconnect_timer", NoToken, "null")

isStale(r) ==
    /\ r.lastDataReceived # NoData
    /\ Elapsed[r.lastDataReceived] > DATA_TIMEOUT

\* The callback of the heartbeat interval.
\* Variant of the heartbeat callback whose ping stops the heartbeat.
onHeartbeat_PingStops(r) ==
    IF ~isConnected(r) THEN scheduleReconnect(r)
    ELSE IF isStale(r) THEN socketDisconnect(r)
    ELSE stopHeartbeat(emit(r, "ping", NoToken))

onHeartbeat(r) ==
    IF ~isConnected(r) THEN scheduleReconnect(r)
    ELSE IF isStale(r) THEN socketDisconnect(r)
    ELSE emit(r, "ping", NoToken)

HeartbeatTick ==
    /\ heartbeatInterval
    /\ Apply(Named(onHeartbeat(State), "heartbeat"))
    /\ History("heartbeat", NoToken, "null")

\* More than DATA_TIMEOUT goes by without inbound data.
TimePasses ==
    /\ lastDataReceived # NoData
    /\ lastDataReceived < Len(Elapsed)
    /\ Apply(Named([State EXCEPT !.lastDataReceived = @ + 1], "time"))
    /\ History("time", NoToken, "null")

\* ------------------------------------------------------------ specification
\* The service object as its constructor and field initializers leave it.
Constructed ==
    /\ socket = "null"
    /\ superseded = [st \in LiveStates |-> 0]
    /\ isConnecting = FALSE
    /\ reconnectAttempts = 0
    /\ reconnectTimeout = NULL
    /\ leakedReconnects = 0
    /\ isManualDisconnect = FALSE
    /\ lastError = "null"
    /\ lastDataReceived = NoData
    /\ heartbeatInterval = FALSE
    /\ connectionStabilized = FALSE
    /\ subscriptionTimeout = FALSE
    /\ leakedTimeouts = 0
    /\ specificContractCallbacks = <<>>
    /\ marketDataCallback = "null"
    /\ connectCallback = "null"
    /\ disconnectCallback = "null"
    /\ errorCallback = "null"
    /\ hookIsConnected = FALSE
    /\ watchedOrders = <<>>
    /\ orderCheckInterval = FALSE
    /\ orderExecutedCallback = "null"
    /\ emitted = <<>>
    /\ invoked = <<>>
    /\ delivered = <<>>
    /\ event = "init"
    /\ expected = NoExpectation
    /\ fires = 0
    /\ stopped = FALSE
    /\ twice = FALSE

Init ==
    /\ channel \in Channels
    /\ Constructed
    /\ frame = NoFrame
    /\ scen = Idle("off")

Next ==
    \/ connect
    \/ disconnect
    \/ \E t \in Tokens, cb \in Callbacks : subscribeToSpecificContract(t, cb)
    \/ \E t \in Tokens : unsubscribeFromSpecificContract(t)
    \/ \E cb \in Callbacks : subscribeToMarketData(cb)
    \/ unsubscribeFromMarketData
    \/ \E h \in Observers : setObservers(h)
    \/ \E w \in Which : SocketConnect(w)
    \/ \E w \in Which, reason \in ServerReasons : SocketDisconnect(w, reason)
    \/ \E w \in Which, giveUp \in BOOLEAN : SocketConnectError(w, giveUp)
    \/ \E w \in Which : SocketPong(w)
    \/ StabilizationFires
    \/ LeakedStabilizationFires
    \/ ReconnectTimerFires
    \/ HeartbeatTick
    \/ TimePasses

Spec == Init /\ [][Next]_vars

\* The keyed service alone, with one scenario followed; the consumer leaves
\* the observers unset.
NextKeyed ==
    \/ connect
    \/ disconnect
    \/ \E t \in Tokens, cb \in Callbacks : subscribeToSpecificContract(t, cb)
    \/ \E t \in Tokens : unsubscribeFromSpecificContract(t)
    \/ \E w \in Which : SocketConnect(w)
    \/ \E w \in Which, reason \in ServerReasons : SocketDisconnect(w, reason)
    \/ \E w \in Which, giveUp \in BOOLEAN : SocketConnectError(w, giveUp)
    \/ \E w \in Which : SocketPong(w)
    \/ StabilizationFires
    \/ LeakedStabilizationFires
    \/ ReconnectTimerFires
    \/ HeartbeatTick
    \/ TimePasses

InitDeferred ==
    /\ channel = "contracts"
    /\ Constructed
    /\ frame = NoFrame
    /\ scen = Idle("deferred")

SpecDeferred == InitDeferred /\ [][NextKeyed]_vars

InitReplace ==
    /\ channel = "contracts"
    /\ Constructed
    /\ frame = NoFrame
    /\ scen = Idle("replace")

SpecReplace == InitReplace /\ [][NextKeyed]_vars

\* The data path: one socket that opens and stays open, the consumer's
\* subscriptions and observers, and one frame, any frame, that the server
\* sends over the socket whenever it likes.
InitData ==
    /\ channel \in Channels
    /\ Constructed
    /\ frame \in Frames(channel)
    /\ scen = Idle("off")

NextData ==
    \/ connect
    \/ \E t \in Tokens, cb \in Callbacks : subscribeToSpecificContract(t, cb)
    \/ \E t \in Tokens : unsubscribeFromSpecificContract(t)
    \/ \E cb \in Callbacks : subscribeToMarketData(cb)
    \/ unsubscribeFromMarketData
    \/ \E h \in Observers : setObservers(h)
    \/ SocketConnect("current")
    \/ SocketData("current")

SpecData == InitData /\ [][NextData]_vars

\* The data path under the watchdog: one socket at a time, which opens,
\* stabilizes and is closed by the service only; time passes, pongs and the
\* frames of the sample, one after the other, arrive at any moment.
InitFreshness ==
    /\ channel \in Channels
    /\ Constructed
    /\ frame \in SampleFrames(channel)
    /\ scen = Idle("off")

NextFreshness ==
    \/ connect
    \/ disconnect
    \/ \E t \in Tokens, cb \in Callbacks : subscribeToSpecificContract(t, cb)
    \/ \E t \in Tokens : unsubscribeFromSpecificContract(t)
    \/ \E cb \in Callbacks : subscribeToMarketData(cb)
    \/ unsubscribeFromMarketData
    \/ SocketConnect("current")
    \/ SocketData("current")
    \/ NextFrame
    \/ SocketPong("current")
    \/ StabilizationFires
    \/ HeartbeatTick
    \/ TimePasses

SpecFreshness == InitFreshness /\ [][NextFreshness]_vars

\* The connection alone, either class, with the observers the consumer
\* registers and the observer invoked last followed.
InitObservers ==
    /\ channel \in Channels
    /\ Constructed
    /\ frame = NoFrame
    /\ scen = Idle("observers")

NextObservers ==
    \/ connect
    \/ disconnect
    \/ \E h \in PageObservers : setObservers(h)
    \/ \E w \in Which : SocketConnect(w)
    \/ \E w \in Which, reason \in ServerReasons : SocketDisconnect(w, reason)
    \/ \E w \in Which, giveUp \in BOOLEAN : SocketConnectError(w, giveUp)
    \/ \E w \in Which : SocketPong(w)
    \/ StabilizationFires
    \/ LeakedStabilizationFires
    \/ ReconnectTimerFires
    \/ HeartbeatTick
    \/ TimePasses

SpecObservers == InitObservers /\ [][NextObservers]_vars

\* The connection, either class, and the hook that shows its state: the
\* hook registers its handlers or cleans them up at any moment.
InitIndicator ==
    /\ channel \in Channels
    /\ Constructed
    /\ frame = NoFrame
    /\ scen = Idle("indicator")

NextIndicator ==
    \/ connect
    \/ disconnect
    \/ \E h \in HookObservers : setObservers(h)
    \/ \E w \in Which : SocketConnect(w)
    \/ \E w \in Which, reason \in ServerReasons : SocketDisconnect(w, reason)
    \/ \E w \in Which, giveUp \in BOOLEAN : SocketConnectError(w, giveUp)
    \/ \E w \in Which : SocketPong(w)
    \/ StabilizationFires
    \/ LeakedStabilizationFires
    \/ ReconnectTimerFires
    \/ HeartbeatTick
    \/ TimePasses

SpecIndicator == InitIndicator /\ [][NextIndicator]_vars

\* Variant of getConnectionStatus that looks at lastError first.
getConnectionStatus_ErrorFirst(r) ==
    IF r.lastError # "null" THEN "error"
    ELSE IF r.isConnecting THEN "connecting"
    ELSE IF isConnected(r) THEN "connected"
    ELSE "disconnected"

getConnectionStatus(r) ==
    IF r.isConnecting THEN "connecting"
    ELSE IF isConnected(r) THEN "connected"
    ELSE IF r.lastError # "null" THEN "error"
    ELSE "disconnected"

\* -------------------------------------------------- the order watch service
\* OrderWatchServiceImpl has the transport fields of the two channel classes
\* (its socket, isConnecting, reconnectAttempts, reconnectTimeout,
\* isManualDisconnect, heartbeatInterval) and, for the orders,
\* watchedOrders, orderCheckInterval and orderExecutedCallback.  Its
\* methods are prefixed where a channel class has one of the same name.
OrderIds == 1..MaxOrders
\* OrderWatchConfig, as far as two configurations of an order differ.
OrderWatchConfigs ==
    { [orderId |-> o, stopLossMargin |-> m] : o \in OrderIds, m \in {1, 2} }

\* Array.from(this.watchedOrders.values())
MapValues(m) == [ i \in DOMAIN m |-> m[i][2] ]

orderWatch_handleConnectionError(r) == [r EXCEPT !.isConnecting = FALSE]

orderWatch_scheduleReconnect(r) ==
    IF r.reconnectTimeout # NULL \/ r.isManualDisconnect THEN r
    ELSE IF r.reconnectAttempts >= maxReconnectAttempts
    THEN orderWatch_handleConnectionError(r)
    ELSE setReconnectTimeout(r,
             Min(RECONNECT_DELAY * Pow2(r.reconnectAttempts),
                 RECONNECT_DELAY_MAX))

stopOrderChecking(r) == [r EXCEPT !.orderCheckInterval = FALSE]

startOrderChecking(r) == [stopOrderChecking(r) EXCEPT !.orderCheckInterval = TRUE]

syncWatchedOrders(r) ==
    IF ~isConnected(r) \/ r.watchedOrders = <<>> THEN r
    ELSE emit(r, "sync_watched_orders", MapValues(r.watchedOrders))

\* The stop-loss step: it looks the executed order up and, if it is
\* watched, does nothing but write a line to the console.
triggerStopLossForExecutedOrder(r, orderId) ==
    IF MapGet(r.watchedOrders, orderId) = "null" THEN r
    ELSE call(r, "stopLossFound", "console.log")

orderWatch_doConnect(r) ==
    IF ~CanConnect(r) THEN r
    ELSE [r EXCEPT !.isConnecting = TRUE,
                   !.superseded = IF r.socket \in LiveStates
                                  THEN [@ EXCEPT ![r.socket] = @ + 1]
                                  ELSE @,
                   !.socket = "opening"]

orderWatch_onConnectEvent(r) ==
    startOrderChecking(startHeartbeat(syncWatchedOrders(
        [r EXCEPT !.isConnecting = FALSE, !.reconnectAttempts = 0])))

orderWatch_onDisconnectEvent(r, reason) ==
    LET r1 == stopOrderChecking(stopHeartbeat(
                 [r EXCEPT !.isConnecting = FALSE]))
    IN  IF ~r1.isManualDisconnect /\ reason # "io client disconnect"
        THEN orderWatch_scheduleReconnect(r1)
        ELSE r1

\* this.orderExecutedCallback?.(data): seen is what getWatchedOrders() holds
\* while the callback runs.
notifyOrderExecuted(r, orderId) ==
    IF r.orderExecutedCallback = "null" THEN r
    ELSE [r EXCEPT !.delivered = Append(@,
             [cb |-> r.orderExecutedCallback, key |-> orderId,
              arg |-> [orderId |-> orderId],
              seen |-> MapKeys(r.watchedOrders)])]

\* Variant of the 'order_executed' listener that notifies the consumer
\* before it removes the order.
onOrderExecutedEvent_NotifiesFirst(r, orderId) ==
    LET r1 == notifyOrderExecuted(r, orderId)
        r2 == [r1 EXCEPT !.watchedOrders = MapDelete(@, orderId)]
    IN  triggerStopLossForExecutedOrder(r2, orderId)

onOrderExecutedEvent(r, orderId) ==
    LET r1 == [r EXCEPT !.watchedOrders = MapDelete(@, orderId)]
        r2 == notifyOrderExecuted(r1, orderId)
    IN  triggerStopLossForExecutedOrder(r2, orderId)

orderWatch_onHeartbeat(r) ==
    IF ~isConnected(r) THEN orderWatch_scheduleReconnect(r)
    ELSE emit(r, "ping", NoToken)

onOrderCheck(r) ==
    IF ~isConnected(r) THEN r
    ELSE emit(r, "check_order_status", MapValues(r.watchedOrders))

orderWatch_socketDisconnect(r) ==
    IF r.socket = "connected"
    THEN orderWatch_onDisconnectEvent([r EXCEPT !.socket = "closed"],
                                      "io client disconnect")
    ELSE [r EXCEPT !.socket = "closed"]

orderWatch_doDisconnect(r) ==
    LET r1 == stopOrderChecking(stopHeartbeat(
                 [r EXCEPT !.isManualDisconnect = TRUE]))
        r2 == [r1 EXCEPT !.reconnectTimeout = NULL]
        r3 == IF r2.socket # "null"
              THEN [orderWatch_socketDisconnect(r2) EXCEPT !.socket = "null"]
              ELSE r2
    IN  [r3 EXCEPT !.isConnecting = FALSE, !.reconnectAttempts = 0]

doWatchOrder(r, config) ==
    LET r1 == [r EXCEPT !.watchedOrders = MapSet(@, config.orderId, config)]
    IN  IF isConnected(r1) THEN emit(r1, "watch_order", config) ELSE r1

doStopWatchingOrder(r, orderId) ==
    LET r1 == [r EXCEPT !.watchedOrders = MapDelete(@, orderId)]
    IN  IF isConnected(r1)
        THEN emit(r1, "stop_watching_order", orderId)
        ELSE r1

\* The public API of the order watch service.
orderWatch_connect ==
    /\ channel = "order-watch"
    /\ ConnectFits(State)
    /\ Apply(Named(orderWatch_doConnect(State), "connect"))
    /\ History("connect", NoToken, "null")

orderWatch_disconnect ==
    /\ channel = "order-watch"
    /\ Apply(Named(orderWatch_doDisconnect(State), "disconnect"))
    /\ History("disconnect", NoToken, "null")

watchOrder(config) ==
    /\ channel = "order-watch"
    /\ Apply(Named(doWatchOrder(State, config), "watchOrder"))
    /\ History("watchOrder", config.orderId, "null")

stopWatchingOrder(orderId) ==
    /\ channel = "order-watch"
    /\ Apply(Named(doStopWatchingOrder(State, orderId), "stopWatchingOrder"))
    /\ History("stopWatchingOrder", orderId, "null")

onOrderExecuted(cb) ==
    /\ channel = "order-watch"
    /\ Apply(Named([State EXCEPT !.orderExecutedCallback = cb],
                   "onOrderExecuted"))
    /\ History("onOrderExecuted", NoToken, cb)

\* The events of the order watch sockets and the timers of the service.
OrderWatchSocketConnect(which) ==
    /\ channel = "order-watch"
    /\ SocketAt(which, "opening")
    /\ Apply(Named(orderWatch_onConnectEvent(
                     moveSocket(State, which, "opening", "connected")),
                   "connect_event"))
    /\ History("connect_event", NoToken, "null")

OrderWatchSocketDisconnect(which, reason) ==
    /\ channel = "order-watch"
    /\ SocketAt(which, "connected")
    /\ LET after == IF reason = "io server disconnect"
                    THEN "closed" ELSE "opening"
       IN  Apply(Named(orderWatch_onDisconnectEvent(
                         moveSocket(State, which, "connected", after), reason),
                       "disconnect_event"))
    /\ History("disconnect_event", NoToken, "null")

OrderWatchSocketConnectError(which, giveUp) ==
    /\ channel = "order-watch"
    /\ SocketAt(which, "opening")
    /\ LET after == IF giveUp THEN "closed" ELSE "opening"
       IN  Apply(Named(orderWatch_handleConnectionError(
                         moveSocket(State, which, "opening", after)),
                       "connect_error"))
    /\ History("connect_error", NoToken, "null")

\* The server reports an order executed, watched by this client or not.
OrderExecuted(which, orderId) ==
    /\ channel = "order-watch"
    /\ SocketAt(which, "connected")
    /\ Apply(Named(onOrderExecutedEvent(State, orderId), "order_executed"))
    /\ History("order_executed", orderId, "null")

OrderWatchReconnectTimerFires ==
    /\ channel = "order-watch"
    /\ reconnectTimeout # NULL
    /\ LET r1 == [State EXCEPT !.reconnectTimeout = NULL,
                               !.reconnectAttempts = @ + 1]
       IN  /\ ConnectFits(r1)
           /\ Apply(Named(orderWatch_doConnect(r1), "reconnect_timer"))
    /\ History("reconnect_timer", NoToken, "null")

OrderWatchHeartbeatTick ==
    /\ channel = "order-watch"
    /\ heartbeatInterval
    /\ Apply(Named(orderWatch_onHeartbeat(State), "heartbeat"))
    /\ History("heartbeat", NoToken, "null")

OrderCheckTick ==
    /\ channel = "order-watch"
    /\ orderCheckInterval
    /\ Apply(Named(onOrderCheck(State), "order_check"))
    /\ History("order_check", NoToken, "null")

InitOrderWatch ==
    /\ channel = "order-watch"
    /\ Constructed
    /\ frame = NoFrame
    /\ scen = Idle("orders")

NextOrderWatch ==
    \/ orderWatch_connect
    \/ orderWatch_disconnect
    \/ \E config \in OrderWatchConfigs : watchOrder(config)
    \/ \E o \in OrderIds : stopWatchingOrder(o)
    \/ \E cb \in Callbacks : onOrderExecuted(cb)
    \/ \E w \in Which : OrderWatchSocketConnect(w)
    \/ \E w \in Which, reason \in ServerReasons :
           OrderWatchSocketDisconnect(w, reason)
    \/ \E w \in Which, giveUp \in BOOLEAN :
           OrderWatchSocketConnectError(w, giveUp)
    \/ \E w \in Which, o \in OrderIds : OrderExecuted(w, o)
    \/ OrderWatchReconnectTimerFires
    \/ OrderWatchHeartbeatTick
    \/ OrderCheckTick

SpecOrderWatch == InitOrderWatch /\ [][NextOrderWatch]_vars

\* The keyed registry with the callbacks of two renders: subscriptions are
\* made, made again and removed while the connection opens, stabilizes,
\* drops and reconnects and the frames of the sample arrive.
InitUpsert ==
    /\ channel = "contracts"
    /\ Constructed
    /\ frame \in SampleFrames(channel)
    /\ scen = Idle("upsert")

NextUpsert ==
    \/ connect
    \/ disconnect
    \/ \E t \in Tokens, cb \in RenderCallbacks :
           subscribeToSpecificContract(t, cb)
    \/ \E t \in Tokens : unsubscribeFromSpecificContract(t)
    \/ SocketConnect("current")
    \/ \E reason \in ServerReasons : SocketDisconnect("current", reason)
    \/ SocketData("current")
    \/ NextFrame
    \/ StabilizationFires
    \/ ReconnectTimerFires

SpecUpsert == InitUpsert /\ [][NextUpsert]_vars

\* ------------------------------------------------------------------ claims
SubscribeRequests ==
    { i \in DOMAIN emitted :
        emitted[i].name \in {"subscribe_specific_contract",
                             "subscribe_market_data"} }

RequestsFor(token) ==
    { i \in DOMAIN emitted :
        /\ emitted[i].name = "subscribe_specific_contract"
        /\ emitted[i].token = token }

LiveSockets ==
    (IF socket \in LiveStates THEN 1 ELSE 0)
        + superseded["opening"] + superseded["connected"]

\* C1: on the keyed channel disconnect() leaves the subscription registry
\* as it was; an entry goes away only by unsubscribe(key).
C1_DisconnectKeepsRegistry ==
    [][ event' = "disconnect"
          => specificContractCallbacks' = specificContractCallbacks ]_vars

\* C2: when the heartbeat finds a stable connection whose data is older than
\* DATA_TIMEOUT it closes the transport, isManualDisconnect stays false and
\* a reconnection timer is pending afterwards.
C2_WatchdogEngagesScheduler ==
    [][ ( /\ event' = "heartbeat"
          /\ connectionStabilized /\ socket = "connected"
          /\ isStale(State) /\ ~isManualDisconnect )
          => ( /\ socket' = "closed"
               /\ ~isManualDisconnect'
               /\ reconnectTimeout' # NULL ) ]_vars

\* C3: at most one transport of the channel is live (open, opening or
\* re-opening by itself) in every reachable state.
C3_OneLiveTransport == LiveSockets <= 1

\* C4: an event of a socket the service no longer references changes no
\* connection state, starts no stabilization or heartbeat timer, emits no
\* request and invokes no observer.
SupersededEvent ==
    \/ SocketConnect("superseded")
    \/ \E reason \in ServerReasons : SocketDisconnect("superseded", reason)
    \/ \E giveUp \in BOOLEAN : SocketConnectError("superseded", giveUp)
    \/ SocketPong("superseded")

C4_SupersededEventsInert ==
    [][ SupersededEvent
          => ( /\ UNCHANGED << socket, isConnecting, connectionStabilized,
                               lastError, subscriptionTimeout, leakedTimeouts,
                               heartbeatInterval, reconnectTimeout >>
               /\ emitted' = <<>>
               /\ invoked' = <<>> ) ]_vars

\* C5: a connect() call that opens a transport clears isManualDisconnect
\* and lastError.
C5_ConnectClearsManualDisconnect ==
    [][ (event' = "connect" /\ CanConnect(State))
          => (~isManualDisconnect' /\ lastError' = "null") ]_vars

\* C6: at a stabilization that follows a close the consumer did not ask
\* for, the registry holds the entries it held just before that close,
\* changed by the subscribe and unsubscribe calls made since and by nothing
\* else, each key once.
C6_RegistrySurvivesReconnect ==
    (event = "stabilized" /\ expected.valid)
        => /\ Entries(specificContractCallbacks) = expected.entries
           /\ Cardinality(MapKeys(specificContractCallbacks))
                 = Len(specificContractCallbacks)

C6_Witness ==
    /\ event = "stabilized" /\ expected.valid
    /\ socket = "connected" /\ connectionStabilized
    /\ Len(specificContractCallbacks) = MaxTokens
    /\ Len(emitted) = MaxTokens

\* C7: disconnect() while a reconnection is scheduled and subscriptions are
\* registered, then connect(): one socket is created, reconnectAttempts is
\* zero, and the first stabilization emits one subscribe request for each
\* subscription that was registered.
C7_ReplaceBeforeReconnect ==
    (scen.mode = "replace" /\ scen.phase = "check")
        => /\ scen.created = 1
           /\ reconnectAttempts = 0
           /\ \A t \in scen.saved : Cardinality(RequestsFor(t)) = 1

\* C8: a stabilization emits exactly one subscribe request per registry
\* entry and none for other tokens (keyed channel), exactly one
\* subscribe_market_data (broadcast channel).
C8_ReplayOncePerEntry ==
    event = "stabilized"
        => IF channel = "contracts"
           THEN /\ \A t \in Tokens :
                     Cardinality(RequestsFor(t))
                       = IF t \in MapKeys(specificContractCallbacks)
                         THEN 1 ELSE 0
                /\ Cardinality(SubscribeRequests)
                     = Len(specificContractCallbacks)
           ELSE Cardinality(SubscribeRequests) = 1

\* C9: a subscribe request goes out only while the connection is stable;
\* subscribe(key, cb) in any other state records the entry and emits
\* nothing.
C9_NoSubscribeWhileUnstable ==
    SubscribeRequests # {} => (socket = "connected" /\ connectionStabilized)

\* C10: a key subscribed while the transport was not connected, and neither
\* unsubscribed nor dropped by disconnect() since, has a subscribe request
\* emitted at the next stabilization.
C10_DeferredSubscribeSent ==
    (scen.mode = "deferred" /\ scen.phase = "check")
        => \A t \in scen.saved : RequestsFor(t) # {}

\* ------------------------------------------------- claims on the data path
\* The entry of key k in the frame is a well-formed, in-range entry: an
\* object whose price is a finite number above 0 and below the ceiling and
\* whose changePercent is a finite number.
InRange(e) ==
    /\ e.kind = "object"
    /\ e.price.type = "number" /\ e.price.special = "none"
    /\ e.price.n > 0 /\ e.price.n < PRICE_CEILING
    /\ e.changePercent.type = "number" /\ e.changePercent.special = "none"

\* The last step handed a callback the frame's entry for key k.
DeliveredEntry(k) ==
    \E i \in DOMAIN delivered :
        /\ k \in DOMAIN delivered[i].arg
        /\ delivered[i].arg[k].price = frame.entries[k].price
        /\ delivered[i].arg[k].changePercent = frame.entries[k].changePercent

OutOfRange(e) ==
    \/ e.kind = "scalar"
    \/ /\ e.kind = "object"
       /\ \/ e.price.type # "number"
          \/ e.changePercent.type # "number"
          \/ e.price.special # "none"
          \/ e.price.n <= 0
          \/ e.price.n >= PRICE_CEILING

\* Key k has a subscriber: its registry entry, or the broadcast callback.
Subscribed(k) ==
    IF channel = "contracts" THEN k \in MapKeys(specificContractCallbacks)
    ELSE marketDataCallback # "null"

\* A frame with an in-range entry k, subscribed, and an out-of-range sibling
\* delivers k's entry and drops the sibling.
PartialAcceptance ==
    \A k \in DOMAIN frame.entries :
        ( /\ InRange(frame.entries[k])
          /\ Subscribed(k)
          /\ \E k2 \in DOMAIN frame.entries \ {k} :
                 OutOfRange(frame.entries[k2]) )
            => /\ DeliveredEntry(k)
               /\ \A k2 \in DOMAIN frame.entries \ {k} :
                     OutOfRange(frame.entries[k2])
                         => \A i \in DOMAIN delivered :
                                k2 \notin DOMAIN delivered[i].arg

C13_DeliveredValuesInRange ==
    \A i \in DOMAIN delivered :
        \A k \in DOMAIN delivered[i].arg :
            LET v == delivered[i].arg[k]
            IN  /\ v.price.type = "number" /\ v.price.special = "none"
                /\ v.price.n > 0 /\ v.price.n < PRICE_CEILING
                /\ v.changePercent.type = "number"
                /\ v.changePercent.special = "none"

\* A frame that is malformed or out of range as a whole: it has no data
\* object, or (keyed channel) none of its entries is in range, or
\* (broadcast channel) one of the two index entries is not in range.
MalformedFrame ==
    \/ frame.shape # "object"
    \/ /\ channel = "contracts"
       /\ \A k \in DOMAIN frame.entries : ~InRange(frame.entries[k])
    \/ /\ channel = "market-data"
       /\ \E k \in DOMAIN frame.entries : ~InRange(frame.entries[k])

\* C14: a malformed or out-of-range frame invokes no data callback and no
\* observer, and leaves the connection state, the timers and the registry
\* as they were.  (The freshness stamp lastDataReceived is not part of
\* this statement.)
C14_MalformedFrameAbsorbed ==
    [][ (event' = "data" /\ MalformedFrame)
          => ( /\ delivered' = <<>>
               /\ invoked' = <<>>
               /\ UNCHANGED << socket, superseded, isConnecting,
                               connectionStabilized, reconnectAttempts,
                               reconnectTimeout, isManualDisconnect,
                               lastError, heartbeatInterval,
                               subscriptionTimeout, leakedTimeouts,
                               specificContractCallbacks,
                               marketDataCallback >> ) ]_vars

\* ------------------------------------------- claims on the reconnection
\* The step runs scheduleReconnect with the attempts used up: a close the
\* client did not ask for, or a heartbeat tick that finds no connection.
ExhaustedSchedule ==
    /\ reconnectAttempts >= maxReconnectAttempts
    /\ reconnectTimeout = NULL
    /\ ~isManualDisconnect
    /\ \/ event' = "disconnect_event"
       \/ event' = "heartbeat" /\ socket # "connected"

ErrorReported(msg) ==
    /\ lastError = msg
    /\ errorCallback # "null"
          => \E i \in DOMAIN invoked :
                 invoked[i] = [what |-> "onError", cb |-> errorCallback]

ExampleDelays == <<2000, 4000, 8000, 10000, 10000, 10000>>

\* C16: every fire of the backoff timer adds one to reconnectAttempts, and
\* the timer armed after n consecutive failed reconnections has the delay
\* min(2000 * 2^n, 10000) ms: 2s, 4s, 8s, 10s, 10s, 10s for n = 0..5.
C16_BackoffSequence ==
    [][ /\ event' = "reconnect_timer"
            => reconnectAttempts' = reconnectAttempts + 1
        /\ (reconnectTimeout = NULL /\ reconnectTimeout' # NULL)
            => /\ reconnectTimeout'
                     = Min(RECONNECT_DELAY * Pow2(fires), RECONNECT_DELAY_MAX)
               /\ fires + 1 \in DOMAIN ExampleDelays
                     => reconnectTimeout' = ExampleDelays[fires + 1]
               /\ reconnectTimeout' <= RECONNECT_DELAY_MAX ]_vars

\* The timer armed after five failed reconnections in a row.
C16_Witness ==
    /\ event \in {"disconnect_event", "heartbeat"}
    /\ fires = 5
    /\ reconnectTimeout = RECONNECT_DELAY_MAX

\* C17: after a transport failure the caller did not ask for, with
\* isManualDisconnect false, the channel does not rest with a transport
\* that is closed for good, no reconnection timer pending and no exhaustion
\* error reported.  (A transport that still tries to open by itself counts
\* as a reconnection in progress.)
C17_FailureHandedToScheduler ==
    (~isManualDisconnect /\ socket = "closed")
        => \/ reconnectTimeout # NULL
           \/ lastError = "Max reconnection attempts reached"

\* Backoff timers of the channel that are pending.
PendingReconnectTimers ==
    (IF reconnectTimeout # NULL THEN 1 ELSE 0) + leakedReconnects

\* C18: at most one reconnection timer is pending in every reachable
\* state, and a close or a heartbeat tick that comes while one is pending
\* leaves that timer as it is and arms no other.
C18_OneReconnectTimer ==
    [][ /\ PendingReconnectTimers' <= 1
        /\ (reconnectTimeout # NULL
               /\ event' \in {"disconnect_event", "heartbeat"})
            => UNCHANGED << reconnectTimeout, leakedReconnects >> ]_vars

\* A close arrives while a timer is pending: the timer was armed after one
\* failed reconnection (4 s), a transport opened since and closes now.
C18_Witness ==
    /\ event = "disconnect_event"
    /\ ~isManualDisconnect
    /\ reconnectAttempts = 0
    /\ reconnectTimeout = 2 * RECONNECT_DELAY
    /\ leakedReconnects = 0

\* C19: a reconnection timer is armed only by a close the client did not
\* ask for or by a heartbeat tick that finds no connection, never between
\* disconnect() and the next connect(); when disconnect() returns no
\* reconnection timer is pending, and until the next connect() none is
\* pending and none fires.
C19_NoReconnectAfterDisconnect ==
    [][ /\ event' = "disconnect" => PendingReconnectTimers' = 0
        /\ stopped => /\ PendingReconnectTimers = 0
                      /\ event' # "reconnect_timer"
        /\ (reconnectTimeout = NULL /\ reconnectTimeout' # NULL)
            => /\ ~stopped
               /\ event' \in {"disconnect_event", "heartbeat"} ]_vars

\* After disconnect() a transport the service left open closes, or the
\* heartbeat ticks: the scheduler is asked and arms nothing.
C19_Witness ==
    /\ stopped
    /\ event \in {"disconnect_event", "heartbeat"}
    /\ reconnectAttempts < maxReconnectAttempts
    /\ reconnectTimeout = NULL

\* C20: from the return of disconnect() to the next connect() no
\* stabilization timer, heartbeat interval or backoff timer is pending.
C20_NoTimerAfterDisconnect ==
    stopped => /\ ~subscriptionTimeout
               /\ leakedTimeouts = 0
               /\ ~heartbeatInterval
               /\ PendingReconnectTimers = 0

\* ------------------------------------------------- claims on the public API
\* The channel is disconnected: no transport is connected and connect() is
\* not under way.
Disconnected == ~isConnecting /\ socket # "connected"

\* C21: disconnect() called on a disconnected channel invokes no observer;
\* disconnect() emits nothing; and the state disconnect() leaves is one that
\* a further disconnect() leaves as it is, invoking and emitting nothing,
\* so that two calls in a row end where one call ends.
C21_DisconnectIdempotent ==
    [][ event' = "disconnect"
          => /\ emitted' = <<>>
             /\ Disconnected => invoked' = <<>>
             /\ doDisconnect(State)' = State'
             /\ event = "disconnect"
                   => /\ invoked' = <<>>
                      /\ UNCHANGED << socket, superseded, isConnecting,
                                      reconnectAttempts, reconnectTimeout,
                                      leakedReconnects, isManualDisconnect,
                                      lastError, lastDataReceived,
                                      heartbeatInterval, connectionStabilized,
                                      subscriptionTimeout, leakedTimeouts,
                                      specificContractCallbacks,
                                      marketDataCallback, connectCallback,
                                      disconnectCallback, errorCallback >> ]_vars

\* disconnect() was called twice in a row with an observer registered.
C21_Witness ==
    /\ twice /\ event = "disconnect"
    /\ disconnectCallback = "obs"
    /\ socket = "null" /\ isManualDisconnect
    /\ invoked = <<>>

\* The states of the connection: Connecting while connect() is under way,
\* ConnectedUnstable from the transport's open to the stabilization,
\* ConnectedStable from then on while the transport is connected.
Connecting == isConnecting
ConnectedUnstable == socket = "connected" /\ ~connectionStabilized
ConnectedStable == socket = "connected" /\ connectionStabilized

\* C22: connect() called while Connecting, ConnectedUnstable or
\* ConnectedStable creates no socket, emits nothing, invokes nothing and
\* leaves every field, timer and counter of the service as it was.
C22_ConnectNoOp ==
    [][ ( /\ event' = "connect"
          /\ Connecting \/ ConnectedUnstable \/ ConnectedStable )
          => /\ emitted' = <<>>
             /\ invoked' = <<>>
             /\ UNCHANGED << socket, superseded, isConnecting,
                             reconnectAttempts, reconnectTimeout,
                             leakedReconnects, isManualDisconnect,
                             lastError, lastDataReceived,
                             heartbeatInterval, connectionStabilized,
                             subscriptionTimeout, leakedTimeouts,
                             specificContractCallbacks,
                             marketDataCallback, connectCallback,
                             disconnectCallback, errorCallback >> ]_vars

\* connect() returned on a stable connection: the transport is connected
\* (a call that creates a socket leaves it opening), the heartbeat runs.
C22_Witness ==
    /\ event = "connect"
    /\ socket = "connected" /\ connectionStabilized
    /\ heartbeatInterval
    /\ ~isConnecting

\* ---------------------------------------------------- claims on observers
\* Invocations of the observer `what` by the last step.
Invocations(what) ==
    Cardinality({ i \in DOMAIN invoked : invoked[i].what = what })

\* The step takes a transport out of the connected state.
LeavesConnected ==
    \/ socket = "connected" /\ socket' # "connected"
    \/ superseded'["connected"] < superseded["connected"]

\* A stabilization invokes the on-connect observer once and nothing else
\* does; a step that takes a transport out of the connected state invokes
\* the on-disconnect observer once and nothing else does; no step invokes
\* both.
OneToOne ==
    /\ Invocations("onConnect")'
          = IF event' = "stabilized" /\ connectCallback # "null"
            THEN 1 ELSE 0
    /\ Invocations("onDisconnect")'
          = IF LeavesConnected /\ disconnectCallback # "null"
            THEN 1 ELSE 0
    /\ ~(Invokes("onConnect") /\ Invokes("onDisconnect"))

\* C23, as claimed: observer invocations match transitions one to one, and
\* the invocations of on-connect and on-disconnect alternate over a run.
C23_ObserversAlternate ==
    [][ /\ OneToOne
        /\ Invokes("onConnect") => scen.phase # "onConnect"
        /\ Invokes("onDisconnect") => scen.phase # "onDisconnect" ]_vars

\* C23, amended: observer invocations match transitions one to one: once
\* on-connect per stabilization, once on-disconnect per transition out of a
\* connected state, stable or not, never both in one step.
C23_ObserversOneToOne == [][OneToOne]_vars

\* The transport is closed from the other side: the on-disconnect observer
\* is invoked once, and a reconnection is scheduled.
C23_Witness ==
    /\ scen.mode = "observers" /\ scen.phase = "onDisconnect"
    /\ event = "disconnect_event"
    /\ invoked = << [what |-> "onDisconnect", cb |-> "obs"] >>
    /\ socket = "opening"
    /\ reconnectTimeout # NULL

\* ---------------------------------------------------- claims on freshness
\* The frame passes the validation of its channel.
FrameValidates ==
    /\ frame.shape = "object"
    /\ IF channel = "contracts" THEN validateContractData(frame).ok
       ELSE validateMarketData(frame).ok

\* C24: lastDataReceived is advanced by a validated data frame, by a pong
\* and by the transport's open (where the stamp is first recorded) and by
\* nothing else; a data frame that fails validation leaves it as it was.
C24_FreshnessFromValidData ==
    [][ /\ (lastDataReceived' # NoData /\ lastDataReceived' # lastDataReceived
               /\ event' # "time")
            => \/ event' \in {"pong", "connect_event"}
               \/ event' = "data" /\ FrameValidates
        /\ (event' = "data" /\ ~FrameValidates)
            => lastDataReceived' = lastDataReceived ]_vars

\* ----------------------------------------------------- claims on the watchdog
\* C25: the heartbeat interval is pending only while the connection is
\* ConnectedStable, and a step that takes the connection out of
\* ConnectedStable leaves no heartbeat interval pending.
C25_WatchdogOnlyWhileStable ==
    [][ /\ heartbeatInterval => ConnectedStable
        /\ (ConnectedStable /\ ~ConnectedStable') => ~heartbeatInterval' ]_vars

\* ------------------------------------------------- claims on unsubscribe
UnsubscribeRequests ==
    { i \in DOMAIN emitted :
        emitted[i].name = "unsubscribe_specific_contract" }

\* The step is a call of unsubscribe: it leaves no entry for the key (the
\* keyed registry holds each key once, the broadcast slot is empty), and
\* what it emits is an unsubscribe request for a key it removed.
UnsubscribeRemoves ==
    /\ event' = "unsubscribeFromSpecificContract"
          => /\ Len(specificContractCallbacks')
                   >= Len(specificContractCallbacks) - 1
             /\ \A i \in DOMAIN emitted' :
                   /\ i \in UnsubscribeRequests'
                   /\ emitted'[i].token \notin MapKeys(specificContractCallbacks')
    /\ event' = "unsubscribeFromMarketData" => marketDataCallback' = "null"

\* Every data callback the step invokes is registered when the frame
\* arrives: none that unsubscribe removed and subscribe did not put back.
DeliversToSubscribed ==
    \A i \in DOMAIN delivered' :
        IF channel = "contracts"
        THEN << delivered'[i].key, delivered'[i].cb >>
                 \in Entries(specificContractCallbacks)
        ELSE marketDataCallback = delivered'[i].cb

\* C26: unsubscribe(key) removes the entry of key and emits an unsubscribe
\* request only while the connection is ConnectedStable; from then on no
\* frame invokes a callback for key until key is subscribed again.
C26_UnsubscribeStopsDelivery ==
    [][ /\ UnsubscribeRemoves
        /\ (event' \in {"unsubscribeFromSpecificContract",
                         "unsubscribeFromMarketData"} /\ emitted' # <<>>)
              => ConnectedStable
        /\ DeliversToSubscribed ]_vars

\* ------------------------------------------------- claims on frame order
\* C27: a frame is handled in the step in which it arrives and in no other:
\* data callbacks run in data steps only, every payload handed over is
\* taken from the frame that arrives in that step, and the step invokes the
\* callback of each subscription at most once.  The payloads a subscriber
\* sees are therefore a subsequence of the frames in arrival order, none
\* twice.
C27_FramesInArrivalOrder ==
    [][ /\ delivered' # <<>> => event' = "data"
        /\ \A i \in DOMAIN delivered' :
              \A k \in DOMAIN delivered'[i].arg :
                  /\ frame.shape = "object"
                  /\ delivered'[i].arg[k].price = frame.entries[k].price
                  /\ delivered'[i].arg[k].changePercent
                        = frame.entries[k].changePercent
        /\ \A i, j \in DOMAIN delivered' :
              ( /\ delivered'[i].key = delivered'[j].key
                /\ delivered'[i].cb = delivered'[j].cb ) => i = j ]_vars

\* A frame with in-range entries for two subscribed keys arrives: each of
\* the two callbacks runs once, in registry order, with its own entry.
C27_Witness ==
    /\ event = "data" /\ channel = "contracts"
    /\ Len(specificContractCallbacks) = 2
    /\ Len(delivered) = 2
    /\ delivered[1].key = specificContractCallbacks[1][1]
    /\ delivered[2].key = specificContractCallbacks[2][1]
    /\ DeliveredEntry(1) /\ DeliveredEntry(2)

\* ---------------------------------------------- claims on manual connect
\* C28: a connect() call of the consumer that opens a transport leaves
\* reconnectAttempts at zero, so that the next reconnection timer has the
\* base delay.
C28_ConnectResetsBackoff ==
    [][ (event' = "connect" /\ CanConnect(State))
          => reconnectAttempts' = 0 ]_vars

\* ------------------------------------------- claims on observer registration
\* C29: an observer slot holds the handler registered last: no step invokes
\* a handler that a later registration replaced, whoever registered it, and
\* a registration fills all of the slot it names.
C29_LastRegistrationWins ==
    /\ \A i \in DOMAIN invoked : invoked[i].cb \notin scen.saved
    /\ scen.saved \cap {connectCallback, disconnectCallback, errorCallback}
          = {}

\* The hook's handlers were replaced by the page's and these by the empty
\* handler; a stabilization invokes the empty handler alone.
C29_Witness ==
    /\ scen.mode = "observers"
    /\ scen.saved = {"obs", "obsPage"}
    /\ event = "stabilized"
    /\ invoked = << [what |-> "onConnect", cb |-> "noop"] >>

\* --------------------------------------------- claims on the stabilization
\* Stabilization timers that are pending, and transports that are open.
PendingStabilizations ==
    (IF subscriptionTimeout THEN 1 ELSE 0) + leakedTimeouts

ConnectedTransports ==
    (IF socket = "connected" THEN 1 ELSE 0) + superseded["connected"]

\* C30: the stabilization timer of an open is cancelled when its transport
\* closes first: every pending stabilization timer is the timer of a
\* transport that is still open, and while no transport is open no
\* stabilization runs: the connection does not become stable, the heartbeat
\* is not started and the on-connect observer is not invoked.
C30_CloseCancelsStabilization ==
    [][ /\ PendingStabilizations' <= ConnectedTransports'
        /\ ConnectedTransports = 0
              => /\ event' # "stabilized"
                 /\ connectionStabilized' => connectionStabilized
                 /\ heartbeatInterval' => heartbeatInterval
                 /\ ~Invokes("onConnect") ]_vars

\* ------------------------------------------- claims on the broadcast channel
\* The entry passes the checks the broadcast validator makes on an index
\* entry: an object with a price and a changePercent that are numbers, the
\* price neither <= 0 nor > the ceiling.
PassesIndexChecks(e) ==
    /\ e.kind = "object"
    /\ e.price.type = "number" /\ e.changePercent.type = "number"
    /\ ~Le(e.price, 0) /\ ~Gt(e.price, PRICE_CEILING)

\* The payload the callback gets holds both index entries of the frame.
WholePayload(arg) ==
    /\ DOMAIN arg = Indexes
    /\ \A k \in Indexes :
          /\ arg[k].price = frame.entries[k].price
          /\ arg[k].changePercent = frame.entries[k].changePercent

\* C31: on the broadcast channel a frame both of whose index entries pass
\* validation invokes the registered callback once with the whole payload;
\* a frame one of whose entries fails, or that arrives while no callback is
\* registered, invokes nothing, and no step other than the frame's arrival
\* invokes a data callback.
C31_BroadcastWholePayload ==
    [][ channel = "market-data"
          => /\ delivered' # <<>> => event' = "data"
             /\ event' = "data"
                   => IF /\ marketDataCallback # "null"
                         /\ frame.shape = "object"
                         /\ \A k \in Indexes :
                               PassesIndexChecks(frame.entries[k])
                      THEN /\ Len(delivered') = 1
                           /\ delivered'[1].cb = marketDataCallback
                           /\ WholePayload(delivered'[1].arg)
                      ELSE delivered' = <<>> ]_vars

\* A frame with two in-range index entries arrives with a callback
\* registered.
C31_Witness ==
    /\ event = "data" /\ channel = "market-data"
    /\ marketDataCallback = "cbF"
    /\ InRange(frame.entries["nifty50"]) /\ InRange(frame.entries["niftyBank"])
    /\ Len(delivered) = 1
    /\ DOMAIN delivered[1].arg = Indexes

\* --------------------------------------------------- claims on the indicator
\* C32: the hook's indicator agrees with the channel: it is true only while
\* the current connection is ConnectedStable, and it is true whenever the
\* connection is ConnectedStable and the hook's handlers were registered
\* throughout.
C32_IndicatorAgrees ==
    /\ hookIsConnected => ConnectedStable
    /\ (ConnectedStable /\ scen.mode = "indicator"
           /\ scen.phase = "throughout") => hookIsConnected

\* ------------------------------------------------------ claims on the upsert
\* C33: subscribing a key leaves exactly one entry for it, holding the
\* callback of that call, every key of the registry has one entry, and a
\* callback that was replaced for a key is not invoked for that key until it
\* is registered for it again.
C33_SubscribeUpserts ==
    [][ /\ Cardinality(MapKeys(specificContractCallbacks'))
            = Len(specificContractCallbacks')
        /\ event' = "subscribeToSpecificContract"
              => \E t \in Tokens, cb \in RenderCallbacks :
                    /\ MapGet(specificContractCallbacks', t) = cb
                    /\ \A u \in Tokens \ {t} :
                           MapGet(specificContractCallbacks', u)
                              = MapGet(specificContractCallbacks, u)
                    /\ scen'.saved = (scen.saved
                          \cup (IF MapGet(specificContractCallbacks, t)
                                     \in {"null", cb} THEN {}
                                 ELSE {<<t, MapGet(specificContractCallbacks,
                                                   t)>>})) \ {<<t, cb>>}
        /\ scen'.mode = "upsert"
              => \A i \in DOMAIN delivered' :
                    <<delivered'[i].key, delivered'[i].cb>> \notin scen'.saved
      ]_vars

\* A frame is delivered for a key to the newest callback after the callback
\* registered before it was replaced.
C33_Witness ==
    /\ scen.mode = "upsert" /\ event = "data"
    /\ \E i \in DOMAIN delivered, cb \in RenderCallbacks :
          /\ <<delivered[i].key, cb>> \in scen.saved
          /\ delivered[i].cb # cb

\* --------------------------------------------------- claims on the heartbeat
\* C34: a heartbeat tick that finds the transport connected and the data
\* fresh emits one ping on it, invokes no callback and changes no field of
\* the service: no connection state, timer, counter or registry entry.
C34_HeartbeatOnlyPings ==
    [][ (event' = "heartbeat" /\ socket = "connected" /\ ~isStale(State))
          => /\ emitted' = << [name |-> "ping", token |-> NoToken,
                                wire |-> TRUE] >>
             /\ invoked' = <<>> /\ delivered' = <<>>
             /\ UNCHANGED << socket, superseded, isConnecting,
                             reconnectAttempts, reconnectTimeout,
                             leakedReconnects, isManualDisconnect, lastError,
                             lastDataReceived, heartbeatInterval,
                             connectionStabilized, subscriptionTimeout,
                             leakedTimeouts, specificContractCallbacks,
                             marketDataCallback, connectCallback,
                             disconnectCallback, errorCallback >> ]_vars

\* A tick has pinged on a stable connection that has subscriptions.
C34_Witness ==
    /\ event = "heartbeat"
    /\ Len(emitted) = 1 /\ emitted[1].name = "ping"
    /\ socket = "connected" /\ connectionStabilized
    /\ lastDataReceived # NoData /\ ~isStale(State)
    /\ (specificContractCallbacks # <<>> \/ marketDataCallback # "null")

\* ------------------------------------------- claims on the reset at the open
\* The current transport, connected and not yet stabilized, drops without
\* the client having closed it.
DropsBeforeStabilizing ==
    /\ event' = "disconnect_event"
    /\ socket = "connected" /\ socket' # "connected"
    /\ ~connectionStabilized

\* C35: the 'connect' event sets reconnectAttempts to zero at once, with
\* the stabilization timer still pending; and a transport that drops
\* before it stabilized leaves a reconnection scheduled with the base
\* delay of 2 s, the retry budget not exhausted.
C35_OpenResetsBackoff ==
    [][ /\ event' = "connect_event"
            => /\ reconnectAttempts' = 0
               /\ subscriptionTimeout' /\ ~connectionStabilized'
        /\ DropsBeforeStabilizing
            => /\ reconnectTimeout' = RECONNECT_DELAY
               /\ reconnectAttempts' < maxReconnectAttempts
               /\ lastError' # "Max reconnection attempts reached" ]_vars

\* ------------------------------------- claims on the stabilization timers
\* C36: at most one stabilization timer is pending in every reachable
\* state, and a 'connect' event does not arrive while one is pending.
C36_OneStabilizationTimer ==
    [][ /\ PendingStabilizations' <= 1
        /\ event' = "connect_event" => ~subscriptionTimeout ]_vars

\* ------------------------------------------------ claims on the order watch
\* Requests of the last step with the given name.
Requests(name) == SelectSeq(emitted', LAMBDA e : e.name = name)

\* C37: the watched orders change only in watchOrder, stopWatchingOrder and
\* at an 'order_executed' event, so they survive disconnect() and every
\* reconnection; and a transport that opens while orders are watched makes
\* the service emit one sync_watched_orders request with all of them.
C37_WatchedOrdersSurvive ==
    [][ /\ watchedOrders' # watchedOrders
            => event' \in {"watchOrder", "stopWatchingOrder",
                           "order_executed"}
        /\ (event' = "connect_event" /\ watchedOrders # <<>>)
            => /\ Len(Requests("sync_watched_orders")) = 1
               /\ Requests("sync_watched_orders")[1].token
                     = MapValues(watchedOrders)
               /\ Requests("sync_watched_orders")[1].wire ]_vars

\* The orders of a request that carries a list of configurations.
RequestedOrders(e) == { e.token[i].orderId : i \in DOMAIN e.token }

C39_StatusByPriority ==
    LET status == getConnectionStatus(State)
    IN  /\ status \in {"connecting", "connected", "error", "disconnected"}
        /\ isConnecting => status = "connecting"
        /\ (~isConnecting /\ socket = "connected") => status = "connected"
        /\ (~isConnecting /\ socket # "connected" /\ lastError # "null")
              => status = "error"
        /\ (~isConnecting /\ socket # "connected" /\ lastError = "null")
              => status = "disconnected"
        /\ ~(isConnecting /\ socket = "connected")

\* The status is 'connected' in the window before stabilization, with an
\* error recorded.
C39_Witness ==
    /\ getConnectionStatus(State) = "connected"
    /\ ConnectedUnstable
    /\ lastError # "null"

=============================================================================
